---------------------------- MODULE Spec2Model ----------------------------
(***************************************************************************)
(* A model of app.py, the Borsa Istanbul daily dashboard: the RSS          *)
(* ingestion pipeline (fetch_feed_items behind st.cache_data, dedupe,      *)
(* filter_today, keyword_theme, sector_buckets, build_digest) and the      *)
(* Streamlit script that drives it on every rerun.                         *)
(*                                                                         *)
(* Text is modelled at the character level: a Python str is a sequence of  *)
(* one-character strings.  A character outside ASCII is written by its     *)
(* code point ("U+00FC" is the letter u with diaeresis).                   *)
(***************************************************************************)
EXTENDS Integers, Sequences, FiniteSets, TLC

VARIABLES
    \* one helper called on its own
    fn,          \* the helper that has been applied ("none" before the call)
    arg,         \* the argument the helper is applied to
    ret,         \* the value the helper returned
    \* the Streamlit script
    pc,          \* where the script run is: idle, fetch, dedupe, select, digest, done
    settings,    \* the sidebar: use_extras, only_today, per_feed_limit, timeout_sec
    feeds,       \* feeds: the <<name, url>> pairs of this run, in dictionary order
    idx,         \* the position of the fetch loop in feeds
    all_items,   \* all_items
    errors,      \* errors: the items the warning lists
    news_items,  \* news_items
    page,        \* what column 1 shows at the end of the run
    calls,       \* this run's calls of fetch_feed_items, in order
    renders,     \* script runs started so far
    history,     \* the network retrievals made since the cache was last
                 \* cleared: what was asked, when, in which run, the result
    \* the process
    cache,       \* the entries of st.cache_data for fetch_feed_items
    clock        \* seconds since the session started

helperVars == <<fn, arg, ret>>
scriptVars == <<pc, settings, feeds, idx, all_items, errors, news_items, page,
                calls, renders>>
vars == <<fn, arg, ret, pc, settings, feeds, idx, all_items, errors, news_items,
          page, calls, renders, history, cache, clock>>

None == "None"   \* no value yet

-----------------------------------------------------------------------------
(* Generic sequence helpers                                                *)

Min(a, b) == IF a < b THEN a ELSE b

RECURSIVE Concat(_)
\* "".join(parts) for a sequence of character sequences
Concat(parts) ==
    IF parts = <<>> THEN <<>> ELSE Head(parts) \o Concat(Tail(parts))

\* every sequence over S of length 0..n
SeqsUpTo(S, n) == UNION {[1..k -> S] : k \in 0..n}

-----------------------------------------------------------------------------
(* clean_text: html.unescape, tag stripping, whitespace collapsing         *)

Whitespace == {" ", "\t", "\n"}

\* characters that end the name of a character reference in html.unescape's
\* pattern  &(#[0-9]+;?|#[xX][0-9a-fA-F]+;?|[^\t\n\f <&#;]{1,32};?)
CharrefStop == {"\t", "\n", " ", "<", "&", "#", ";"}

\* html.entities.html5 restricted to the references the modelled texts can
\* spell (the legacy names are also listed without their semicolon)
Html5 ==
    { << <<"a","m","p",";">>, <<"&">> >>, << <<"a","m","p">>, <<"&">> >>,
      << <<"l","t",";">>,     <<"<">> >>, << <<"l","t">>,     <<"<">> >>,
      << <<"g","t",";">>,     <<">">> >>, << <<"g","t">>,     <<">">> >> }

Html5Names == {e[1] : e \in Html5}

Html5Value(name) == (CHOOSE e \in Html5 : e[1] = name)[2]

\* html._replace_charref for a named reference s (the text after the "&")
ReplaceCharref(s) ==
    IF s \in Html5Names THEN Html5Value(s)
    ELSE LET xs == {x \in 2..(Len(s) - 1) : SubSeq(s, 1, x) \in Html5Names}
         IN  IF xs # {}
             THEN LET x == CHOOSE y \in xs : \A z \in xs : z <= y
                  IN  Html5Value(SubSeq(s, 1, x)) \o SubSeq(s, x + 1, Len(s))
             ELSE <<"&">> \o s

\* length of the reference name that starts at position i (0 when none)
RECURSIVE NameRun(_, _)
NameRun(s, i) ==
    IF i > Len(s) \/ s[i] \in CharrefStop THEN 0 ELSE 1 + NameRun(s, i + 1)

RECURSIVE UnescapeFrom(_, _)
UnescapeFrom(s, i) ==
    IF i > Len(s) THEN <<>>
    ELSE IF s[i] # "&" THEN <<s[i]>> \o UnescapeFrom(s, i + 1)
    ELSE LET n    == Min(NameRun(s, i + 1), 32)
             semi == i + n + 1 <= Len(s) /\ s[i + n + 1] = ";"
             ref  == SubSeq(s, i + 1, i + n) \o (IF semi THEN <<";">> ELSE <<>>)
             nxt  == i + n + 1 + (IF semi THEN 1 ELSE 0)
         IN  IF n = 0 THEN <<"&">> \o UnescapeFrom(s, i + 1)
             ELSE ReplaceCharref(ref) \o UnescapeFrom(s, nxt)

\* html.unescape(s)
Unescape(s) == UnescapeFrom(s, 1)

\* re.sub(r"<[^>]+>", " ", s): a tag is "<", one or more characters other
\* than ">", and the first ">" after them
RECURSIVE StripTagsFrom(_, _)
StripTagsFrom(s, i) ==
    IF i > Len(s) THEN <<>>
    ELSE LET closers == {j \in (i + 2)..Len(s) : s[j] = ">"}
         IN  IF s[i] = "<" /\ i + 1 <= Len(s) /\ s[i + 1] # ">" /\ closers # {}
             THEN LET j == CHOOSE k \in closers : \A m \in closers : k <= m
                  IN  <<" ">> \o StripTagsFrom(s, j + 1)
             ELSE <<s[i]>> \o StripTagsFrom(s, i + 1)

StripTags(s) == StripTagsFrom(s, 1)

\* re.sub(r"\s+", " ", s)
RECURSIVE CollapseWs(_)
CollapseWs(s) ==
    IF s = <<>> THEN <<>>
    ELSE IF Head(s) \in Whitespace
         THEN IF Len(s) > 1 /\ s[2] \in Whitespace
              THEN CollapseWs(Tail(s))
              ELSE <<" ">> \o CollapseWs(Tail(s))
         ELSE <<Head(s)>> \o CollapseWs(Tail(s))

RECURSIVE LStrip(_)
LStrip(s) ==
    IF s # <<>> /\ Head(s) \in Whitespace THEN LStrip(Tail(s)) ELSE s

RECURSIVE RStrip(_)
RStrip(s) ==
    IF s # <<>> /\ s[Len(s)] \in Whitespace
    THEN RStrip(SubSeq(s, 1, Len(s) - 1)) ELSE s

\* str.strip()
Strip(s) == RStrip(LStrip(s))

\* clean_text(s); a missing text (s or "") is the empty text <<>>
clean_text(s) == Strip(CollapseWs(StripTags(Unescape(s))))

-----------------------------------------------------------------------------
(* Date and time.  An aware datetime is <<utc, off>>: the instant in        *)
(* minutes since 1970-01-01T00:00Z and the UTC offset, in minutes, of the  *)
(* zone it is expressed in.  An absent one (None) is <<>>.                 *)

NoDt == <<>>

\* TZ = pytz.timezone("Europe/Istanbul"): UTC+3 all year for every instant
\* later than 2016, which is where the model draws the clock and the dates
\* it compares with it
TZ_OFFSET == 180

\* datetime(1970, 1, 1, tzinfo=TZ): a pytz zone given as tzinfo carries the
\* zone's first offset, the local mean time of Istanbul, +1:56
TZ_LMT_OFFSET == 116

EpochFallback == <<0 - TZ_LMT_OFFSET, TZ_LMT_OFFSET>>

\* dt.astimezone(TZ): the same instant, expressed in the display zone
AsTimezoneTZ(dt) == <<dt[1], TZ_OFFSET>>

\* dt.date(): the calendar day of the wall clock, as a day number
DateOf(dt) == (dt[1] + dt[2]) \div 1440

\* What a feed gives as an entry's date: nothing, an empty string, text that
\* dateutil cannot parse, or a wall-clock time (minutes since 1970-01-01
\* 00:00) with or without a UTC offset (tz is <<>> or <<offset>>)
AbsentDate  == [kind |-> "absent"]
EmptyDate   == [kind |-> "empty"]
GarbageDate == [kind |-> "garbage"]
WallDate(w, tz) == [kind |-> "dt", wall |-> w, tz |-> tz]

\* safe_parse_dt(x)
safe_parse_dt(x) ==
    IF x.kind \in {"absent", "empty"} THEN NoDt
    ELSE IF x.kind = "garbage" THEN NoDt             \* dtparser.parse raises
    ELSE LET off == IF x.tz = <<>> THEN 0 ELSE x.tz[1]   \* naive: UTC
         IN  AsTimezoneTZ(<<x.wall - off, off>>)

-----------------------------------------------------------------------------
(* News items                                                              *)

\* item_hash(title, link): the first 16 hex digits of the SHA-256 of
\* title + "||" + link.  The digest is modelled as an injective tag of the
\* text that is hashed, so two items have the same hash exactly when the
\* hashed texts are equal
item_hash(title, link) == <<"sha256">> \o title \o <<"|", "|">> \o link

Item(source, title, link, summary, published, hash, is_error) ==
    [source |-> source, title |-> title, link |-> link, summary |-> summary,
     published |-> published, hash |-> hash, is_error |-> is_error]

\* a key without the fallback: it.get("hash")
DedupKeyHashOnly(it) == it.hash

\* the key dedupe gives an item: it.get("hash") or (title + link)
DedupKey(it) == IF it.hash # <<>> THEN it.hash ELSE it.title \o it.link

RECURSIVE DedupeLoop(_, _, _, _)
DedupeLoop(items, i, seen, out) ==
    IF i > Len(items) THEN out
    ELSE LET key == DedupKey(items[i])
         IN  IF key \in seen
             THEN DedupeLoop(items, i + 1, seen, out)
             ELSE DedupeLoop(items, i + 1, seen \cup {key}, Append(out, items[i]))

\* dedupe(items)
dedupe(items) == DedupeLoop(items, 1, {}, <<>>)

\* a comparison of dates that forgets the item's own offset
TodayOnlyUtcDate(items, today) ==
    SelectSeq(items, LAMBDA it : it.published # NoDt /\ it.published[1] \div 1440 = today)

\* the list comprehension of filter_today, for today's date
TodayOnly(items, today) ==
    SelectSeq(items, LAMBDA it : it.published # NoDt /\ DateOf(it.published) = today)

\* filter_today(items, only_today), called when datetime.now(TZ) is now
filter_today(items, only_today, now) ==
    IF ~only_today THEN items ELSE TodayOnly(items, DateOf(now))

-----------------------------------------------------------------------------
(* keyword_theme                                                           *)

UpperAZ == <<"A","B","C","D","E","F","G","H","I","J","K","L","M",
             "N","O","P","Q","R","S","T","U","V","W","X","Y","Z",
             "U+00C3","U+00C4","U+00C5","U+0178","U+00DC">>
LowerAZ == <<"a","b","c","d","e","f","g","h","i","j","k","l","m",
             "n","o","p","q","r","s","t","u","v","w","x","y","z",
             "U+00E3","U+00E4","U+00E5","U+00FF","U+00FC">>

\* str.lower(), one character at a time
LowerMap ==
    [c \in {UpperAZ[i] : i \in 1..Len(UpperAZ)} |->
        LowerAZ[CHOOSE i \in 1..Len(UpperAZ) : UpperAZ[i] = c]]

LowerChar(c) == IF c \in DOMAIN LowerMap THEN LowerMap[c] ELSE c

Lower(s) == [i \in 1..Len(s) |-> LowerChar(s[i])]

Digits == {"0","1","2","3","4","5","6","7","8","9"}

\* the characters the pattern of keyword_theme keeps: a-z, 0-9, \s and the
\* eight characters the source file spells between "a-z" and "0-9" (the
\* Turkish letters as the file holds them: U+00C3 U+00A7, U+00C4 U+0178, ...)
ThemeKept ==
    {LowerAZ[i] : i \in 1..26} \cup Digits \cup Whitespace
    \cup {"U+00C3", "U+00A7", "U+00C4", "U+0178", "U+00B1", "U+00B6",
          "U+00C5", "U+00BC"}

\* re.sub(r"[^a-z...0-9\s]", " ", text)
ThemeStrip(s) == [i \in 1..Len(s) |-> IF s[i] \in ThemeKept THEN s[i] ELSE " "]

\* str.split(): the maximal runs of non-whitespace characters, in order
RECURSIVE SplitFrom(_, _)
SplitFrom(s, i) ==
    IF \A j \in i..Len(s) : s[j] \in Whitespace THEN <<>>
    ELSE LET a == CHOOSE j \in i..Len(s) :
                     s[j] \notin Whitespace /\ \A k \in i..(j - 1) : s[k] \in Whitespace
             b == CHOOSE j \in (a + 1)..(Len(s) + 1) :
                     /\ (j = Len(s) + 1 \/ s[j] \in Whitespace)
                     /\ \A k \in a..(j - 1) : s[k] \notin Whitespace
         IN  <<SubSeq(s, a, b - 1)>> \o SplitFrom(s, b)

Split(s) == SplitFrom(s, 1)

\* sep.join(parts)
RECURSIVE Join(_, _)
Join(sep, parts) ==
    IF parts = <<>> THEN <<>>
    ELSE IF Len(parts) = 1 THEN parts[1]
    ELSE parts[1] \o sep \o Join(sep, Tail(parts))

StopWords ==
    { <<"b","u","g","U+00C3","U+00BC","n">>,
      <<"s","o","n">>,
      <<"d","a","k","i","k","a">>,
      <<"p","i","y","a","s","a">>,
      <<"b","o","r","s","a">>,
      <<"b","i","s","t">>,
      <<"b","i","s","t","1","0","0">>,
      <<"y","U+00C3","U+00BC","z","d","e">>,
      <<"i","l","e">>,
      <<"d","a","h","a">>,
      <<"o","l","a","r","a","k">>,
      <<"g","i","b","i">>,
      <<"i","U+00C3","U+00A7","i","n">>,
      <<"U+00C5","U+0178","i","r","k","e","t">>,
      <<"h","i","s","s","e">>,
      <<"e","n","d","e","k","s">> }

MIN_TOKEN_LEN == 4
MAX_THEMES == 6

\* sorted(pairs, key=lambda x: x[2], reverse=True) for a sequence of
\* <<value, key>> pairs: descending by key, and stable (pairs of equal key
\* keep their order)
RECURSIVE SortDescByKey(_)
SortDescByKey(pairs) ==
    IF pairs = <<>> THEN <<>>
    ELSE LET best == CHOOSE i \in 1..Len(pairs) :
                        /\ \A j \in 1..Len(pairs) : pairs[j][2] <= pairs[i][2]
                        /\ \A j \in 1..(i - 1) : pairs[j][2] < pairs[i][2]
             rest == [k \in 1..(Len(pairs) - 1) |->
                         IF k < best THEN pairs[k] ELSE pairs[k + 1]]
         IN  <<pairs[best]>> \o SortDescByKey(rest)

\* the freq dictionary, as <<token, count>> pairs in insertion order
RECURSIVE CountTokens(_, _)
CountTokens(tokens, freq) ==
    IF tokens = <<>> THEN freq
    ELSE LET t == Head(tokens)
             known == \E i \in 1..Len(freq) : freq[i][1] = t
         IN  CountTokens(Tail(tokens),
                 IF known
                 THEN [i \in 1..Len(freq) |->
                          IF freq[i][1] = t THEN <<t, freq[i][2] + 1>> ELSE freq[i]]
                 ELSE Append(freq, <<t, 1>>))

\* the text keyword_theme and sector_buckets read from an item
ItemText(it) == it.title \o <<" ">> \o it.summary

\* the tokens without the stop-word filter
ThemeTokensNoStop(items) ==
    LET text == ThemeStrip(Lower(Join(<<" ">>, [i \in 1..Len(items) |-> ItemText(items[i])])))
    IN  SelectSeq(Split(text), LAMBDA t : Len(t) >= MIN_TOKEN_LEN)

\* the tokens keyword_theme counts
ThemeTokens(items) ==
    LET text == ThemeStrip(Lower(Join(<<" ">>, [i \in 1..Len(items) |-> ItemText(items[i])])))
        long == SelectSeq(Split(text), LAMBDA t : Len(t) >= MIN_TOKEN_LEN)
    IN  SelectSeq(long, LAMBDA t : t \notin StopWords)

\* keyword_theme(items)
keyword_theme(items) ==
    LET top == SortDescByKey(CountTokens(ThemeTokens(items), <<>>))
        n   == Min(MAX_THEMES, Len(top))
    IN  [i \in 1..n |-> top[i][1]]

-----------------------------------------------------------------------------
(* sector_buckets                                                          *)

SECTOR_KEYWORDS ==
    <<
      << <<"B","a","n","k","a","c","U+00C4","U+00B1","l","U+00C4","U+00B1","k","/","F","i","n","a","n","s">>,
         << <<"b","a","n","k","a">>,
            <<"b","a","n","k","a","c">>,
            <<"k","r","e","d","i">>,
            <<"f","a","i","z">>,
            <<"t","c","m","b">>,
            <<"m","e","r","k","e","z"," ","b","a","n","k">>,
            <<"t","a","h","v","i","l">> >> >>,
      << <<"S","a","n","a","y","i">>,
         << <<"s","a","n","a","y","i">>,
            <<"U+00C3","U+00A7","i","m","e","n","t","o">>,
            <<"d","e","m","i","r">>,
            <<"U+00C3","U+00A7","e","l","i","k">>,
            <<"o","t","o","m","o","t","i","v">>,
            <<"i","h","r","a","c","a","t">> >> >>,
      << <<"E","n","e","r","j","i">>,
         << <<"e","n","e","r","j","i">>,
            <<"p","e","t","r","o","l">>,
            <<"d","o","U+00C4","U+0178","a","l","g","a","z">>,
            <<"e","l","e","k","t","r","i","k">>,
            <<"y","e","n","i","l","e","n","e","b","i","l","i","r">>,
            <<"a","k","a","r","y","a","k","U+00C4","U+00B1","t">> >> >>,
      << <<"H","o","l","d","i","n","g">>,
         << <<"h","o","l","d","i","n","g">> >> >>,
      << <<"G","Y","O">>,
         << <<"g","y","o">>,
            <<"g","a","y","r","i","m","e","n","k","u","l">>,
            <<"k","o","n","u","t">> >> >>,
      << <<"T","e","k","n","o","l","o","j","i","/","S","a","v","u","n","m","a">>,
         << <<"t","e","k","n","o","l","o","j","i">>,
            <<"y","a","z","U+00C4","U+00B1","l","U+00C4","U+00B1","m">>,
            <<"s","a","v","u","n","m","a">>,
            <<"h","a","v","a","c","U+00C4","U+00B1","l","U+00C4","U+00B1","k">>,
            <<"u","y","d","u">>,
            <<"d","r","o","n","e">> >> >>,
      << <<"P","e","r","a","k","e","n","d","e","/","G","U+00C4","U+00B1","d","a">>,
         << <<"g","U+00C4","U+00B1","d","a">>,
            <<"p","e","r","a","k","e","n","d","e">>,
            <<"t","U+00C3","U+00BC","k","e","t","i","m">>,
            <<"i","U+00C3","U+00A7","e","c","e","k">>,
            <<"m","a","r","k","e","t">> >> >>
    >>

\* kw in blob
Contains(blob, kw) ==
    \E i \in 1..(Len(blob) - Len(kw) + 1) : SubSeq(blob, i, i + Len(kw) - 1) = kw

\* any(kw in blob for kw in kws)
AnyKeyword(blob, kws) == \E k \in 1..Len(kws) : Contains(blob, kws[k])

\* sector_buckets(items): <<sector, count>> pairs in the order of
\* SECTOR_KEYWORDS, the sectors that count no item left out
sector_buckets(items) ==
    LET blobs  == [i \in 1..Len(items) |-> Lower(ItemText(items[i]))]
        counts == [s \in 1..Len(SECTOR_KEYWORDS) |->
                      << SECTOR_KEYWORDS[s][1],
                         Cardinality({i \in 1..Len(items) :
                             AnyKeyword(blobs[i], SECTOR_KEYWORDS[s][2])}) >>]
    IN  SelectSeq(counts, LAMBDA c : c[2] > 0)

-----------------------------------------------------------------------------
(* build_digest                                                            *)

TOP_ITEMS == 10
THEME_LINE_LEN == 3
SECTOR_LINE_LEN == 4

\* the sort key of build_digest and of the headline table:
\* x.get("published") or datetime(1970, 1, 1, tzinfo=TZ); aware datetimes
\* compare by their instant
PublishedKey(it) ==
    IF it.published # NoDt THEN it.published[1] ELSE EpochFallback[1]

\* sorted(items, key=PublishedKey, reverse=True)
SortByPublished(items) ==
    LET sorted == SortDescByKey([i \in 1..Len(items) |-> <<items[i], PublishedKey(items[i])>>])
    IN  [i \in 1..Len(items) |-> sorted[i][1]]

Prefix(s, n) == SubSeq(s, 1, Min(n, Len(s)))

\* the items build_digest lists under its headlines heading
Highlighted(sorted) ==
    LET top_items == Prefix(SelectSeq(sorted, LAMBDA it : ~it.is_error), TOP_ITEMS)
    IN  SelectSeq(top_items, LAMBDA it : it.link # <<>>)

\* build_digest(items) called when datetime.now(TZ) is now.  The markdown it
\* returns is kept as its parts: the day of the header, the theme line, the
\* sector line and one <<source, title, link>> per bullet; themes and sectors
\* are the function's locals the lines are made of, items is the sorted list
build_digest(items, now) ==
    LET sorted  == SortByPublished(items)
        themes  == keyword_theme(sorted)
        sectors == sector_buckets(sorted)
        links   == Highlighted(sorted)
        bySize  == SortDescByKey(sectors)
    IN  [ today       |-> DateOf(now),
          items       |-> sorted,
          themes      |-> themes,
          sectors     |-> sectors,
          theme_line  |-> IF themes # <<>> THEN Prefix(themes, THEME_LINE_LEN)
                          ELSE <<"Genel piyasa akisi">>,
          sector_line |-> IF sectors # <<>> THEN Prefix(bySize, SECTOR_LINE_LEN)
                          ELSE <<"Sektorel dagilim net degil">>,
          links_md    |-> [i \in 1..Len(links) |->
                              <<links[i].source, links[i].title, links[i].link>>] ]

-----------------------------------------------------------------------------
(* fetch_feed_items                                                        *)

DEFAULT_FEEDS ==
    << << <<"B","l","o","o","m","b","e","r","g","H","T">>,
          <<"h","t","t","p","s",":","/","/","w","w","w",".","b","l","o","o","m","b","e","r","g","h","t",".","c","o","m","/","r","s","s">> >>,
       << <<"B","i","g","p","a","r","a">>,
          <<"h","t","t","p","s",":","/","/","b","i","g","p","a","r","a",".","h","u","r","r","i","y","e","t",".","c","o","m",".","t","r","/","r","s","s","/">> >>,
       << <<"E","k","o","n","o","m","i","m">>,
          <<"h","t","t","p","s",":","/","/","w","w","w",".","e","k","o","n","o","m","i","m",".","c","o","m","/","r","s","s">> >>,
       << <<"C","N","B","C","-","e">>,
          <<"h","t","t","p","s",":","/","/","w","w","w",".","c","n","b","c","e",".","c","o","m","/","r","s","s">> >>,
       << <<"D","o","v","i","z",".","c","o","m">>,
          <<"h","t","t","p","s",":","/","/","w","w","w",".","d","o","v","i","z",".","c","o","m","/","n","e","w","s","/","r","s","s">> >>,
       << <<"F","o","r","e","k","s">>,
          <<"h","t","t","p","s",":","/","/","w","w","w",".","f","o","r","e","k","s",".","c","o","m","/","r","s","s","/">> >> >>

\* the feeds kept when "use_extras" is off: the first three of DEFAULT_FEEDS
CORE_FEEDS == 3

\* What the network does when fetch_feed_items asks for a feed:
\*   ConnectionError, Timeout   requests.get raises
\*   HTTPError                  a 4xx/5xx answer: raise_for_status raises
\*   Malformed                  a 200 answer whose body is no feed:
\*                              feedparser.parse raises nothing, it flags the
\*                              result (bozo) and returns it without entries
\*   Feed                       a 200 answer with a feed of entries
RaisingKinds == {"ConnectionError", "Timeout", "HTTPError"}

Raises(kind)  == [kind |-> kind]
MalformedBody == [kind |-> "Malformed"]
FeedBody(entries) == [kind |-> "Feed", entries |-> entries]

\* str(e) of the exception
ErrorText(kind) ==
    CASE kind = "ConnectionError" -> <<"r","e","f","u","s","e","d">>
      [] kind = "Timeout"         -> <<"t","i","m","e","d"," ","o","u","t">>
      [] kind = "HTTPError"       -> <<"5","0","3"," ","e","r","r","o","r">>

\* parsed.entries of feedparser.parse(r.content)
ParsedEntries(outcome) ==
    IF outcome.kind = "Feed" THEN outcome.entries ELSE <<>>

\* a feed entry as feedparser gives it; a text that is missing or empty is
\* <<>> (getattr(e, "title", "") or "")
RawEntry(title, link, summary, description, published, updated) ==
    [title |-> title, link |-> link, summary |-> summary,
     description |-> description, published |-> published, updated |-> updated]

DateGiven(x) == x.kind \notin {"absent", "empty"}

\* the item fetch_feed_items makes of one entry
EntryItem(name, e) ==
    LET title     == clean_text(e.title)
        link      == e.link
        summary   == clean_text(IF e.summary # <<>> THEN e.summary ELSE e.description)
        published == safe_parse_dt(IF DateGiven(e.published) THEN e.published
                                   ELSE e.updated)
    IN  Item(name, title, link, summary, published, item_hash(title, link), FALSE)

\* the "error item" of the except branch
ErrorItem(name, url, kind) ==
    Item(name, <<"F","e","e","d"," ","e","r","r","o","r",":"," ">> \o name, url,
         ErrorText(kind), NoDt, item_hash(name, url), TRUE)

\* s[:limit]
Slice(s, limit) ==
    IF limit >= 0 THEN Prefix(s, limit)
    ELSE Prefix(s, IF Len(s) + limit > 0 THEN Len(s) + limit ELSE 0)

\* the body of fetch_feed_items(name, url, limit, timeout_sec) when the
\* network does `outcome`
fetch_feed_items(name, url, limit, outcome) ==
    IF outcome.kind \in RaisingKinds
    THEN <<ErrorItem(name, url, outcome.kind)>>
    ELSE LET entries == Slice(ParsedEntries(outcome), limit)
         IN  [i \in 1..Len(entries) |-> EntryItem(name, entries[i])]

-----------------------------------------------------------------------------
(* st.cache_data(ttl=600) around fetch_feed_items                          *)

TTL == 600

\* a key that leaves the timeout out
CacheKeyNoTimeout(name, url, limit, timeout_sec) == <<name, url, limit>>

\* the key of a call: st.cache_data hashes every argument of the function
CacheKey(name, url, limit, timeout_sec) == <<name, url, limit, timeout_sec>>

\* an entry is live until its age reaches the time to live
Live(entry, now) == now < entry.at + TTL

CacheHit(c, key, now) == \E e \in c : e.key = key /\ Live(e, now)

CachedValue(c, key, now) == (CHOOSE e \in c : e.key = key /\ Live(e, now)).value

\* storing a value drops the entry it replaces and every expired entry
CacheStore(c, key, value, now) ==
    {e \in c : e.key # key /\ Live(e, now)}
        \cup {[key |-> key, value |-> value, at |-> now]}

-----------------------------------------------------------------------------
(* The feeds the model serves                                              *)

\* the session starts on 2024-01-01 at 23:50 in Istanbul (20:50 UTC), ten
\* minutes before the display date changes
SessionStart == 19723 * 1440 + 20 * 60 + 50

\* datetime.now(TZ)
Now(clk) == <<SessionStart + (clk \div 60), TZ_OFFSET>>

\* 2024-01-01 09:00 +03:00
DateMorning == WallDate(19723 * 1440 + 9 * 60, <<180>>)
\* 2024-01-01 22:30 without a zone: 2024-01-02 01:30 in Istanbul
DateNaiveLate == WallDate(19723 * 1440 + 22 * 60 + 30, <<>>)
\* 2024-01-02 01:00 -05:00: 2024-01-02 09:00 in Istanbul
DateWest == WallDate(19724 * 1440 + 60, <<0 - 300>>)
\* 1960-01-01 00:00 Z, before the epoch
DateOld == WallDate(0 - 3653 * 1440, <<0>>)

EntryFaiz ==
    RawEntry(<<"T","C","M","B"," ","f","a","i","z"," ","<","b",">","k","a","r","a","r","<","/","b",">">>,
             <<"u","1">>, <<>>,
             <<"k","r","e","d","i"," ","&","a","m","p",";"," ","t","a","h","v","i","l">>,
             DateMorning, AbsentDate)
EntrySavunma ==
    RawEntry(<<"S","a","v","u","n","m","a"," ","i","h","r","a","c","a","t">>,
             <<>>, <<"d","r","o","n","e"," ","u","y","d","u">>, <<>>,
             EmptyDate, DateNaiveLate)
EntryEnerji ==
    RawEntry(<<"E","n","e","r","j","i",":"," ","p","e","t","r","o","l">>,
             <<"u","3">>, <<>>, <<>>, GarbageDate, AbsentDate)
EntryHolding ==
    RawEntry(<<"H","o","l","d","i","n","g">>, <<"u","4">>, <<>>, <<>>,
             DateOld, AbsentDate)

BodyA == <<EntryFaiz, EntrySavunma>>
BodyB == <<EntryFaiz, EntryEnerji>>
BodyC == <<EntryHolding, EntryEnerji, EntrySavunma>>
BodyD == <<EntryHolding>>

-----------------------------------------------------------------------------
(* The Streamlit script: one run is the sidebar, the fetch loop, dedupe,   *)
(* the error report and the filter, and the digest with its table          *)

MaxRenders == 2
MaxClock == 600
\* the step of the clock: half the time to live of a cache entry
TICK == TTL \div 2

NoPage == [body |-> "none"]

FeedsOf(use_extras) ==
    IF use_extras THEN DEFAULT_FEEDS ELSE Prefix(DEFAULT_FEEDS, CORE_FEEDS)

\* lines 215-241 and 253: the widgets are read and the run starts
StartRun(S) ==
    /\ settings' \in S
    /\ feeds' = FeedsOf(settings'.use_extras)
    /\ idx' = 1
    /\ all_items' = <<>>
    /\ errors' = <<>>
    /\ news_items' = <<>>
    /\ page' = NoPage
    /\ calls' = <<>>
    /\ renders' = renders + 1
    /\ pc' = "fetch"

\* the first run the model follows: it finds the cache empty
FirstRun(S) ==
    /\ pc = "idle"
    /\ StartRun(S)
    /\ UNCHANGED <<cache, clock, history, helperVars>>

\* a widget changes (or the page is reloaded): the script runs again
Rerun(S) ==
    /\ pc = "done"
    /\ renders < MaxRenders
    /\ StartRun(S)
    /\ UNCHANGED <<cache, clock, history, helperVars>>

\* lines 244-246: the refresh button clears the cache and reruns the script
\* with the widgets as they are
Refresh ==
    /\ pc = "done"
    /\ renders < MaxRenders
    /\ cache' = {}
    /\ history' = {}
    /\ StartRun({settings})
    /\ UNCHANGED <<clock, helperVars>>

\* time passes between two runs
Tick ==
    /\ pc = "done"
    /\ clock + TICK <= MaxClock
    /\ clock' = clock + TICK
    /\ UNCHANGED <<cache, history, scriptVars, helperVars>>

\* lines 254-255: one iteration of the fetch loop; the call goes through
\* st.cache_data, and on a miss the network answers with one of outcomes O
FetchFeed(O) ==
    /\ pc = "fetch"
    /\ LET name == feeds[idx][1]
           url  == feeds[idx][2]
           key  == CacheKey(name, url, settings.per_feed_limit, settings.timeout_sec)
       IN  IF CacheHit(cache, key, clock)
           THEN /\ all_items' = all_items \o CachedValue(cache, key, clock)
                /\ calls' = Append(calls, [name |-> name, hit |-> TRUE,
                                           outcome |-> [kind |-> "cached"]])
                /\ UNCHANGED <<cache, history>>
           ELSE \E o \in O :
                  LET value == fetch_feed_items(name, url, settings.per_feed_limit, o)
                  IN  /\ all_items' = all_items \o value
                      /\ calls' = Append(calls, [name |-> name, hit |-> FALSE,
                                                 outcome |-> o])
                      /\ cache' = CacheStore(cache, key, value, clock)
                      /\ history' = history \cup
                            {[name |-> name, url |-> url,
                              limit |-> settings.per_feed_limit,
                              timeout_sec |-> settings.timeout_sec,
                              at |-> clock, run |-> renders, value |-> value]}
    /\ idx' = idx + 1
    /\ pc' = IF idx = Len(feeds) THEN "dedupe" ELSE "fetch"
    /\ UNCHANGED <<settings, feeds, errors, news_items, page, renders, clock,
                   helperVars>>

\* line 257
Dedupe ==
    /\ pc = "dedupe"
    /\ all_items' = dedupe(all_items)
    /\ pc' = "select"
    /\ UNCHANGED <<settings, feeds, idx, errors, news_items, page, calls,
                   renders, history, cache, clock, helperVars>>

\* a selection that lets the error items through
NonErrorsAll(items) == items

\* line 267: the items that go on to the digest
NonErrors(items) == SelectSeq(items, LAMBDA it : ~it.is_error)

\* lines 260-268: the feed errors are shown, the rest is filtered
SelectNews ==
    /\ pc = "select"
    /\ errors' = SelectSeq(all_items, LAMBDA it : it.is_error)
    /\ news_items' = filter_today(NonErrors(all_items), settings.only_today, Now(clock))
    /\ pc' = "digest"
    /\ UNCHANGED <<settings, feeds, idx, all_items, page, calls, renders,
                   history, cache, clock, helperVars>>

\* the rows of the headline table: published, source, title, link
TableRows(items) ==
    LET sorted == SortByPublished(items)
    IN  [i \in 1..Len(sorted) |->
            <<sorted[i].published, sorted[i].source, sorted[i].title, sorted[i].link>>]

\* lines 261-264 and 270-282: what column 1 shows
Digest ==
    /\ pc = "digest"
    /\ page' = [ warning |-> [i \in 1..Len(errors) |->
                                 <<errors[i].source, errors[i].summary>>],
                 body    |-> IF news_items = <<>> THEN "info" ELSE "digest",
                 digest  |-> IF news_items = <<>> THEN None
                             ELSE build_digest(news_items, Now(clock)),
                 rows    |-> IF news_items = <<>> THEN <<>>
                             ELSE TableRows(news_items) ]
    /\ pc' = "done"
    /\ UNCHANGED <<settings, feeds, idx, all_items, errors, news_items, calls,
                   renders, history, cache, clock, helperVars>>

InitScript ==
    /\ settings = None
    /\ feeds = <<>>
    /\ idx = 0
    /\ all_items = <<>>
    /\ errors = <<>>
    /\ news_items = <<>>
    /\ page = NoPage
    /\ calls = <<>>
    /\ renders = 0
    /\ history = {}
    /\ cache = {}

InitHelper ==
    /\ fn = "none"
    /\ arg = None
    /\ ret = None

\* One run of the script, whatever the sidebar says and whatever each feed
\* does
RenderSettings ==
    [use_extras : BOOLEAN, only_today : BOOLEAN, per_feed_limit : {30},
     timeout_sec : {8}]

RenderOutcomes ==
    {Raises("Timeout"), MalformedBody, FeedBody(BodyA), FeedBody(BodyB)}

InitRender == pc = "idle" /\ InitScript /\ InitHelper /\ clock \in {0, 600}

NextRender ==
    \/ FirstRun(RenderSettings)
    \/ FetchFeed(RenderOutcomes)
    \/ Dedupe
    \/ SelectNews
    \/ Digest

SpecRender == InitRender /\ [][NextRender]_vars

\* A session of several runs over the three core feeds, followed from a run
\* that finds the cache empty: the sliders are at their defaults, or the
\* limit or the timeout has been moved; time passes, the refresh button is
\* pressed
SessionSettings ==
    { [use_extras |-> FALSE, only_today |-> FALSE, per_feed_limit |-> 30, timeout_sec |-> 8],
      [use_extras |-> FALSE, only_today |-> FALSE, per_feed_limit |-> 10, timeout_sec |-> 8],
      [use_extras |-> FALSE, only_today |-> FALSE, per_feed_limit |-> 30, timeout_sec |-> 20] }

SessionOutcomes == {Raises("Timeout"), FeedBody(BodyD)}

Init == pc = "idle" /\ InitScript /\ InitHelper /\ clock = 0

Next ==
    \/ FirstRun(SessionSettings)
    \/ Rerun(SessionSettings)
    \/ Refresh
    \/ Tick
    \/ FetchFeed(SessionOutcomes)
    \/ Dedupe
    \/ SelectNews
    \/ Digest

Spec == Init /\ [][Next]_vars

-----------------------------------------------------------------------------
(* clean_text as a pure function: raw feed text built from markup pieces   *)

MaxPieces == 4

MarkupPieces ==
    { <<"&">>, <<"a","m","p",";">>, <<"l","t",";">>, <<"g","t",";">>,
      <<"l","t">>, <<"<">>, <<">">>, <<"b">>, <<" ">> }

RawTexts == {Concat(ps) : ps \in SeqsUpTo(MarkupPieces, MaxPieces)}

\* a host imports the module and calls one helper; no script run happens
InitCall(inputs, clocks) ==
    /\ pc = "helper"
    /\ InitScript
    /\ clock \in clocks
    /\ fn = "none"
    /\ ret = None
    /\ arg \in inputs

Call(name, value) ==
    /\ pc = "helper"
    /\ fn = "none"
    /\ fn' = name
    /\ ret' = value
    /\ UNCHANGED <<arg, scriptVars, history, cache, clock>>

Call_clean_text == Call("clean_text", clean_text(arg))

SpecText == InitCall(RawTexts, {0}) /\ [][Call_clean_text]_vars

\* C7: clean_text is idempotent: cleaning a cleaned text returns it
\* unchanged, also when the text holds doubly escaped entities
CleanTextIdempotent ==
    fn = "clean_text" => clean_text(ret) = ret

-----------------------------------------------------------------------------
(* fetch_feed_items called on its own, for every answer of the network     *)

FetchArgs ==
    [feed : 1..Len(DEFAULT_FEEDS), limit : {0, 1, 2, 30}, timeout_sec : {8},
     network : {Raises(k) : k \in RaisingKinds} \cup
               {MalformedBody, FeedBody(<<>>), FeedBody(BodyA), FeedBody(BodyC)}]

Call_fetch_feed_items ==
    Call("fetch_feed_items",
         fetch_feed_items(DEFAULT_FEEDS[arg.feed][1], DEFAULT_FEEDS[arg.feed][2],
                          arg.limit, arg.network))

SpecFetch == InitCall(FetchArgs, {0}) /\ [][Call_fetch_feed_items]_vars

\* C1: whatever fails in the retrieval or the parse (a network error, a
\* timeout, an HTTP error status, content that cannot be parsed), the call
\* returns exactly one error item: is_error, title "Feed error: <name>", the
\* feed's URL as link, the failure text as summary, no date, and the hash of
\* (name, url); a call that succeeds returns at most `limit` items, none an
\* error item
FetchFailuresBecomeOneErrorItem ==
    fn = "fetch_feed_items" =>
        LET name == DEFAULT_FEEDS[arg.feed][1]
            url  == DEFAULT_FEEDS[arg.feed][2]
        IN  IF arg.network.kind \in RaisingKinds \cup {"Malformed"}
            THEN /\ Len(ret) = 1
                 /\ ret[1].is_error
                 /\ ret[1].title = <<"F","e","e","d"," ","e","r","r","o","r",":"," ">> \o name
                 /\ ret[1].link = url
                 /\ ret[1].published = NoDt
                 /\ ret[1].hash = item_hash(name, url)
                 /\ ret[1].summary # <<>>
            ELSE /\ Len(ret) <= arg.limit
                 /\ \A i \in 1..Len(ret) : ~ret[i].is_error

-----------------------------------------------------------------------------
(* dedupe called on its own                                                *)

MaxDedupeItems == 3

\* items with the hash fetch_feed_items gives them, and the same items
\* without a hash; "a" + "bc" and "ab" + "c" are the same title + link text
DedupeChoices ==
    { Item(s, ti, l, <<>>, NoDt, h, FALSE) :
        s \in {<<"X">>, <<"Y">>},
        ti \in {<<"a">>, <<"a","b">>},
        l \in {<<"b","c">>, <<"c">>},
        h \in {<<>>, <<"h","1">>} }

Call_dedupe == Call("dedupe", dedupe(arg))

SpecDedupe ==
    InitCall(SeqsUpTo(DedupeChoices, MaxDedupeItems), {0}) /\ [][Call_dedupe]_vars

\* the key the claim gives an item
ClaimedKey(it) == IF it.hash = <<>> THEN it.title \o it.link ELSE it.hash

\* the positions of arg that hold the first item of their key
FirstOccurrences ==
    {i \in 1..Len(arg) : \A j \in 1..(i - 1) : ClaimedKey(arg[j]) # ClaimedKey(arg[i])}

\* C3: dedupe returns the items that are the first of their key (the hash, or
\* title + link for an item without a hash), in the order of the input: no
\* two items of the result share a key and every key of the input is in it
DedupeKeepsFirstOfEachKey ==
    fn = "dedupe" =>
        /\ Len(ret) = Cardinality(FirstOccurrences)
        /\ \A k \in 1..Len(ret) :
              \E i \in FirstOccurrences :
                  /\ Cardinality({j \in FirstOccurrences : j <= i}) = k
                  /\ ret[k] = arg[i]
        /\ \A k, m \in 1..Len(ret) : k # m => ClaimedKey(ret[k]) # ClaimedKey(ret[m])
        /\ {ClaimedKey(ret[k]) : k \in 1..Len(ret)} = {ClaimedKey(arg[i]) : i \in 1..Len(arg)}

\* a duplicate by hash and a duplicate by title + link were both dropped
DedupeDroppedDuplicates ==
    /\ fn = "dedupe"
    /\ Len(arg) = 3
    /\ Len(ret) = 1
    /\ arg[1].hash = <<>>
    /\ arg[2] # arg[1]
    /\ arg[3].title # arg[1].title

-----------------------------------------------------------------------------
(* filter_today called on its own                                          *)

MaxFilterItems == 3

\* 2024-01-01 20:00 -05:00: 2024-01-02 04:00 in Istanbul
DateWestEvening == WallDate(19723 * 1440 + 20 * 60, <<0 - 300>>)

FilterDates ==
    {AbsentDate, GarbageDate, DateMorning, DateNaiveLate, DateWestEvening, DateOld}

FilterChoices ==
    { Item(<<"X">>, <<"t">>, <<"u">>, <<>>, safe_parse_dt(d), <<"h">>, FALSE) :
        d \in FilterDates }

FilterArgs ==
    [items : SeqsUpTo(FilterChoices, MaxFilterItems), only_today : BOOLEAN]

Call_filter_today ==
    Call("filter_today", filter_today(arg.items, arg.only_today, Now(clock)))

\* the call is made at 23:50 or, ten minutes later, on the next day
SpecFilter == InitCall(FilterArgs, {0, 600}) /\ [][Call_filter_today]_vars

\* the day, in the display zone, of an instant
IstanbulDay(utc) == (utc + TZ_OFFSET) \div 1440

KeptToday ==
    {i \in 1..Len(arg.items) :
        /\ arg.items[i].published # NoDt
        /\ IstanbulDay(arg.items[i].published[1]) = IstanbulDay(SessionStart + clock \div 60)}

\* C9: with only_today on, filter_today returns, in the order of the input,
\* exactly the items that have a date and whose day in the display zone is
\* the current day in the display zone; every item without a date is dropped
FilterTodayKeepsTodaysItems ==
    (fn = "filter_today" /\ arg.only_today) =>
        /\ Len(ret) = Cardinality(KeptToday)
        /\ \A k \in 1..Len(ret) :
              \E i \in KeptToday :
                  /\ Cardinality({j \in KeptToday : j <= i}) = k
                  /\ ret[k] = arg.items[i]
        /\ \A k \in 1..Len(ret) : ret[k].published # NoDt

\* after midnight: an item of the new day whose date was given in another
\* zone is kept, yesterday's item and the item without a date are dropped
FilterTodayAcrossZones ==
    /\ fn = "filter_today"
    /\ arg.only_today
    /\ clock = 600
    /\ Len(arg.items) = 3
    /\ Len(ret) = 1
    /\ ret[1].published[1] \div 1440 # IstanbulDay(ret[1].published[1])
    /\ \E i \in 1..3 : arg.items[i].published = NoDt
    /\ \E i \in 1..3 : arg.items[i].published # NoDt /\ i \notin KeptToday

-----------------------------------------------------------------------------
(* keyword_theme called on its own                                         *)

MaxThemeItems == 3

ThemeItem(title, summary) ==
    Item(<<"X">>, title, <<"u">>, summary, NoDt, item_hash(title, <<"u">>), FALSE)

ThemeChoices ==
    { ThemeItem(<<"f","a","i","z"," ","k","r","e","d","i"," ","b","a","n","k","a">>,
                <<"s","o","n"," ","d","a","k","i","k","a">>),
      ThemeItem(<<"d","o","l","a","r"," ","a","l","t","i","n"," ","p","e","t","r","o","l"," ","f","a","i","z">>,
                <<>>),
      ThemeItem(<<"B","I","S","T","1","0","0"," ","e","n","f","l","a","s","y","o","n"," ","B","i","s","t">>,
                <<"b","u","g","U+00FC","n"," ","d","o","l","a","r">>),
      ThemeItem(<<"K","r","e","d","i","!"," ","i","h","r","a","c","a","t"," ","k","r","e","d","i">>,
                <<"s","a","v","u","n","m","a">>),
      ThemeItem(<<"a","b","c"," ","d","e">>,
                <<>>) }

Call_keyword_theme == Call("keyword_theme", keyword_theme(arg))

SpecTheme ==
    InitCall(SeqsUpTo(ThemeChoices, MaxThemeItems), {0}) /\ [][Call_keyword_theme]_vars

\* every token of the concatenated, lower-cased, stripped text
AllTokens ==
    Split(ThemeStrip(Lower(Join(<<" ">>, [i \in 1..Len(arg) |->
        arg[i].title \o <<" ">> \o arg[i].summary]))))

EligibleIn(toks) ==
    {toks[i] : i \in {j \in 1..Len(toks) : Len(toks[j]) >= 4 /\ toks[j] \notin StopWords}}

Frequency(toks, tok) == Cardinality({i \in 1..Len(toks) : toks[i] = tok})

FirstSeen(toks, tok) ==
    CHOOSE i \in 1..Len(toks) : toks[i] = tok /\ \A j \in 1..(i - 1) : toks[j] # tok

\* u comes before tok: it is more frequent, or as frequent and seen first
Before(toks, u, tok) ==
    \/ Frequency(toks, u) > Frequency(toks, tok)
    \/ /\ Frequency(toks, u) = Frequency(toks, tok)
       /\ FirstSeen(toks, u) < FirstSeen(toks, tok)

\* C8: keyword_theme returns the first 6 eligible tokens (all of them when
\* there are fewer), by descending frequency and, among equally frequent
\* ones, by first appearance; a token is eligible when it has at least 4
\* characters and is no stop word
ThemesAreTopSixEligible ==
    fn = "keyword_theme" =>
        LET toks     == AllTokens
            eligible == EligibleIn(toks)
        IN  /\ Len(ret) = Min(6, Cardinality(eligible))
            /\ \A k \in 1..Len(ret) :
                  /\ ret[k] \in eligible
                  /\ Cardinality({u \in eligible : Before(toks, u, ret[k])}) = k - 1
            /\ \A k \in 1..Len(ret) : Len(ret[k]) >= 4 /\ ret[k] \notin StopWords

\* more than 6 eligible tokens, a tie in frequency, and stop words and short
\* tokens in the text
ThemesCutToSix ==
    /\ fn = "keyword_theme"
    /\ Len(ret) = 6
    /\ LET toks     == AllTokens
           eligible == EligibleIn(toks)
       IN  /\ Cardinality(eligible) > 6
           /\ \E u, v \in eligible :
                 u # v /\ Frequency(toks, u) = Frequency(toks, v) /\ Frequency(toks, u) > 1
           /\ \E i \in 1..Len(toks) : toks[i] \in StopWords
           /\ \E i \in 1..Len(toks) : Len(toks[i]) < 4

-----------------------------------------------------------------------------
(* build_digest called on its own                                          *)

MaxRichItems == 2
MaxBeyondTop == 1

DigestItem(title, link, date) ==
    Item(<<"X">>, title, link, <<>>, safe_parse_dt(date), item_hash(title, link), FALSE)

ItemLinked   == DigestItem(<<"f","a","i","z">>, <<"u","1">>, DateMorning)
ItemUnlinked == DigestItem(<<"k","r","e","d","i">>, <<>>, DateMorning)
ItemUndated  == DigestItem(<<"p","e","t","r","o","l">>, <<"u","3">>, AbsentDate)
ItemOld      == DigestItem(<<"h","o","l","d","i","n","g">>, <<"u","4">>, DateOld)
ItemLate     == DigestItem(<<"d","r","o","n","e">>, <<"u","5">>, DateNaiveLate)
ItemError    == ErrorItem(DEFAULT_FEEDS[1][1], DEFAULT_FEEDS[1][2], "Timeout")

\* short lists of every kind of item, and lists up to MaxBeyondTop longer
\* than TOP_ITEMS of items with and without a link
DigestArgs ==
    SeqsUpTo({ItemLinked, ItemUnlinked, ItemUndated, ItemOld, ItemLate, ItemError},
             MaxRichItems)
    \cup SeqsUpTo({ItemLinked, ItemUnlinked}, TOP_ITEMS + MaxBeyondTop)

Call_build_digest == Call("build_digest", build_digest(arg, Now(clock)))

SpecDigest == InitCall(DigestArgs, {0}) /\ [][Call_build_digest]_vars

\* C5: the headline list is the first 10 items, in the order of the sorted
\* sequence, among the items that have a link (all of them when there are
\* fewer than 10): an item without a link never takes one of the 10 places
HighlightsFirstTenLinked ==
    fn = "build_digest" =>
        LET linked == SelectSeq(ret.items, LAMBDA it : ~it.is_error /\ it.link # <<>>)
            n      == Min(10, Len(linked))
        IN  ret.links_md = [i \in 1..n |-> <<linked[i].source, linked[i].title, linked[i].link>>]

\* C6: in the sequence build_digest works on, no item without a date comes
\* before an item with a date, whatever that date is
UndatedItemsSortLast ==
    fn = "build_digest" =>
        \A i, j \in 1..Len(ret.items) :
            (i < j /\ ret.items[i].published = NoDt) => ret.items[j].published = NoDt

-----------------------------------------------------------------------------
(* One run of the script over feeds that fail in every combination         *)

\* the number of items the i-th feed of the run must contribute: one error
\* item when its retrieval or parse failed, its entries (cut at the limit)
\* otherwise
PartLen(i) ==
    IF calls[i].outcome.kind = "Feed"
    THEN Min(settings.per_feed_limit, Len(calls[i].outcome.entries))
    ELSE 1

RECURSIVE PartStart(_)
PartStart(i) == IF i = 1 THEN 0 ELSE PartStart(i - 1) + PartLen(i - 1)

\* C2: in a run, whichever feeds fail, the loop visits every feed once and
\* in the order of the feed list, the merged sequence holds each feed's
\* result in that order (one error item for a feed that failed, the entries
\* of a feed that answered), and the run goes on to dedupe, filter and
\* digest
BatchHoldsEveryFeedsResult ==
    /\ pc = "fetch" => idx \in 1..Len(feeds) /\ Len(calls) = idx - 1
    /\ pc = "dedupe" =>
          /\ Len(calls) = Len(feeds)
          /\ \A i \in 1..Len(feeds) : calls[i].name = feeds[i][1]
          /\ Len(all_items) = PartStart(Len(feeds) + 1)
          /\ \A i \in 1..Len(feeds) : \A k \in 1..PartLen(i) :
                LET it == all_items[PartStart(i) + k]
                IN  /\ it.source = feeds[i][1]
                    /\ it.is_error = (calls[i].outcome.kind # "Feed")
    /\ pc = "done" => page.body \in {"info", "digest"}

-----------------------------------------------------------------------------
(* A session: what one run leaves to the next                              *)

\* a run is under way: the clock is the time of its calls
Running == pc \in {"fetch", "dedupe", "select", "digest"}

\* the fetches since the last refresh (or the start of the session) that an
\* earlier run made for feed i with the name, URL and limit of this run, and
\* that are younger than the time to live
PriorFetches(i) ==
    {h \in history : /\ h.name = feeds[i][1]
                     /\ h.url = feeds[i][2]
                     /\ h.limit = settings.per_feed_limit
                     /\ h.run < renders
                     /\ clock < h.at + TTL}

\* C10 as stated: a run that comes within the time to live of an earlier
\* fetch of the same (name, URL, limit), with no refresh in between, takes
\* the result from the cache and does not ask the network again
CacheKeyedByNameUrlLimit ==
    Running => \A i \in 1..Len(calls) : PriorFetches(i) # {} => calls[i].hit

\* the fetches of PriorFetches(i) that also had the timeout of this run
PriorFetchesSameTimeout(i) ==
    {h \in PriorFetches(i) : h.timeout_sec = settings.timeout_sec}

\* the fetch this run made itself for feed i
OwnFetches(i) ==
    {h \in history : /\ h.name = feeds[i][1]
                     /\ h.url = feeds[i][2]
                     /\ h.limit = settings.per_feed_limit
                     /\ h.timeout_sec = settings.timeout_sec
                     /\ h.run = renders}

\* C10: a run starts from nothing but the cache, which is keyed by (name,
\* URL, limit, timeout): a call is answered from the cache exactly when an
\* earlier run fetched the same (name, URL, limit, timeout) less than the
\* time to live ago with no refresh since, and it then gets that fetch's
\* result (items or error item); every other call asks the network, so
\* after a refresh every feed is fetched again
CacheKeyedByAllArguments ==
    /\ Running => \A i \in 1..Len(calls) :
          /\ calls[i].hit <=> PriorFetchesSameTimeout(i) # {}
          /\ calls[i].hit => Cardinality(PriorFetchesSameTimeout(i)) = 1 /\ OwnFetches(i) = {}
          /\ ~calls[i].hit => Cardinality(OwnFetches(i)) = 1
    /\ pc \in {"fetch", "dedupe"} =>
          all_items = Concat([i \in 1..Len(calls) |->
              (CHOOSE h \in PriorFetchesSameTimeout(i) \cup OwnFetches(i) : TRUE).value])
    /\ (pc = "fetch" /\ calls = <<>>) =>
          all_items = <<>> /\ errors = <<>> /\ news_items = <<>> /\ page = NoPage

\* a second run, later but within the time to live, got a feed's error item
\* from the cache
CachedErrorItemReused ==
    /\ pc = "digest"
    /\ renders = 2
    /\ clock > 0
    /\ \E i \in 1..Len(calls) :
          /\ calls[i].hit
          /\ \E h \in PriorFetchesSameTimeout(i) :
                h.value # <<>> /\ h.value[1].is_error /\ h.at < clock
    /\ errors # <<>>

-----------------------------------------------------------------------------
(* Error items on their way to the digest: in a run of the script, and in  *)
(* build_digest called on a list that still holds them                     *)

PageSettings ==
    [use_extras : {FALSE}, only_today : BOOLEAN, per_feed_limit : {30},
     timeout_sec : {8}]

MaxMixedItems == 2

MixedLists == SeqsUpTo({ItemLinked, ItemUndated, ItemError}, MaxMixedItems)

InitPage == InitRender \/ InitCall(MixedLists, {0})

NextPage ==
    \/ FirstRun(PageSettings)
    \/ FetchFeed(RenderOutcomes)
    \/ Dedupe
    \/ SelectNews
    \/ Digest
    \/ Call_build_digest

SpecPage == InitPage /\ [][NextPage]_vars

WithoutErrors(items) == SelectSeq(items, LAMBDA it : ~it.is_error)

Line(it) == <<it.source, it.title, it.link>>

\* C4 as stated: whatever list build_digest is given, its error items give
\* no token to the themes, no count to the sectors and no line to the
\* headlines
DigestIgnoresErrorItems ==
    fn = "build_digest" =>
        LET clean == SortByPublished(WithoutErrors(arg))
        IN  /\ ret.themes = keyword_theme(clean)
            /\ ret.sectors = sector_buckets(clean)
            /\ \A k \in 1..Len(ret.links_md) :
                  \E i \in 1..Len(clean) : ret.links_md[k] = Line(clean[i])

\* C4: in every run the error items are reported as feed errors and taken
\* out before build_digest is called, so the themes, the sectors, the
\* headlines and the table of the page are those of the other items; and
\* build_digest, given a list that holds error items, gives none of them a
\* headline line
ErrorItemsLeaveBeforeDigest ==
    /\ pc = "done" =>
          LET failed == SelectSeq(all_items, LAMBDA it : it.is_error)
              clean  == SortByPublished(
                            filter_today(WithoutErrors(all_items),
                                         settings.only_today, Now(clock)))
          IN  /\ page.warning = [i \in 1..Len(failed) |->
                                    <<failed[i].source, failed[i].summary>>]
              /\ IF clean = <<>>
                 THEN page.body = "info"
                 ELSE /\ page.body = "digest"
                      /\ page.digest.themes = keyword_theme(clean)
                      /\ page.digest.sectors = sector_buckets(clean)
                      /\ \A k \in 1..Len(page.digest.links_md) :
                            \E i \in 1..Len(clean) :
                                page.digest.links_md[k] = Line(clean[i])
                      /\ Len(page.rows) = Len(clean)
    /\ fn = "build_digest" =>
          \A k \in 1..Len(ret.links_md) :
              \E i \in 1..Len(arg) : ~arg[i].is_error /\ ret.links_md[k] = Line(arg[i])

\* a run in which a feed failed and another gave today's and older items:
\* the page shows the feed error beside a digest with themes
FeedErrorBesideDigest ==
    /\ pc = "done"
    /\ ~settings.only_today
    /\ page.warning # <<>>
    /\ page.body = "digest"
    /\ page.digest.themes # <<>>
    /\ page.digest.links_md # <<>>

=============================================================================
